---------------------------- MODULE Spec2Model ----------------------------
(***************************************************************************)
(* LockGift: time-locked Bitcoin gifts.                                    *)
(*                                                                         *)
(* The model covers the gift ledger (the `gifts` table), the chain         *)
(* provider (UTXO listing and broadcast), the four API routes (create,     *)
(* status, webhook, sweep) as interleaved invocations that yield at every  *)
(* `await`, and the pure construction of the CLTV locking transaction.     *)
(*                                                                         *)
(* Library code that is not part of the repository (bitcoinjs-lib PSBT     *)
(* signing, bip32 derivation, hashing) is idealised: hashes and            *)
(* derivations are injective, signing succeeds on well-formed input.       *)
(***************************************************************************)
EXTENDS Integers, Sequences, FiniteSets, TLC

(***************************************************************************)
(* Bounds of the model.                                                    *)
(***************************************************************************)
MaxGifts == 2
MaxProcs == 2
MaxDeposits == 2
MaxInvocations == 3

(***************************************************************************)
(* Unix times.  A time t is the pair <<t \div 2^16, t % 2^16>>, so that    *)
(* values at and above 2^31 stay representable.                            *)
(***************************************************************************)
TimeLT(a, b) == a[1] < b[1] \/ (a[1] = b[1] /\ a[2] < b[2])

TimeLE(a, b) == a = b \/ TimeLT(a, b)

TimeAdd(a, b) == <<a[1] + b[1] + (a[2] + b[2]) \div 65536, (a[2] + b[2]) % 65536>>

\* The longest lock the service offers: 50 years (of 365.25 days), in seconds
MaxHorizon == <<24076, 35264>>

\* 500,000,000: below it a lock time is a block height (BIP65).
LockTimeThreshold == <<7629, 25856>>

\* Representative instants, ascending:
\*   1,793,491,200 (2026-11-01)   1,800,000,000 (2027)   2,000,000,000 (2033)
\*   2,147,483,648 (2038, 2^31)   3,500,000,000 (2080)   5,000,000,000 (2128)
TimePoints ==
  << <<27366, 33024>>, <<27465, 53760>>, <<30517, 37888>>,
     <<32768, 0>>, <<53405, 49920>>, <<76293, 61952>> >>

(***************************************************************************)
(* IEEE-754 double arithmetic for Math.floor(amount * (feePercent / 100)). *)
(* A positive double is a 53-bit significand (a sequence of bits, most     *)
(* significant first) scaled by a power of two.                            *)
(***************************************************************************)
\* The bit of weight 2^pos in a bit string
BitAt(bits, pos) == IF pos < Len(bits) THEN bits[Len(bits) - pos] ELSE 0

\* The k-th base-1024 digit of a bit string
Limb(bits, k) ==
  BitAt(bits, 10 * k) + 2 * BitAt(bits, 10 * k + 1) + 4 * BitAt(bits, 10 * k + 2)
  + 8 * BitAt(bits, 10 * k + 3) + 16 * BitAt(bits, 10 * k + 4)
  + 32 * BitAt(bits, 10 * k + 5) + 64 * BitAt(bits, 10 * k + 6)
  + 128 * BitAt(bits, 10 * k + 7) + 256 * BitAt(bits, 10 * k + 8)
  + 512 * BitAt(bits, 10 * k + 9)

\* The value of a bit string below 2^30
BitsToInt(bits) == Limb(bits, 0) + 1024 * Limb(bits, 1) + 1048576 * Limb(bits, 2)

\* bits + 1
BitsInc(bits) ==
  IF \A i \in 1..Len(bits) : bits[i] = 1
  THEN <<1>> \o [i \in 1..Len(bits) |-> 0]
  ELSE LET j == CHOOSE i \in 1..Len(bits) :
                  bits[i] = 0 /\ \A k \in (i + 1)..Len(bits) : bits[k] = 1
       IN  [i \in 1..Len(bits) |-> IF i < j THEN bits[i] ELSE IF i = j THEN 1 ELSE 0]

\* Round a bit string to its 53 leading bits, ties to even.  The result is
\* [sig, drop]: the significand and the number of low bits dropped.
RoundTo53(bits) ==
  IF Len(bits) <= 53 THEN [sig |-> bits, drop |-> 0]
  ELSE LET keep == SubSeq(bits, 1, 53)
           rest == SubSeq(bits, 54, Len(bits))
           half == rest[1] = 1
           sticky == \E i \in 2..Len(rest) : rest[i] = 1
           up == half /\ (sticky \/ keep[53] = 1)
           r == IF up THEN BitsInc(keep) ELSE keep
       IN  IF Len(r) = 54
           THEN [sig |-> SubSeq(r, 1, 53), drop |-> Len(rest) + 1]
           ELSE [sig |-> r, drop |-> Len(rest)]

\* 2^j mod 100 (of period 20 from j = 2 on)
Pow2Mod100(j) == IF j < 2 THEN 2 ^ j ELSE (2 ^ (2 + ((j - 2) % 20))) % 100

\* The i-th bit after the point of the binary expansion of f / 100
FracBit(f, i) == IF 2 * ((f * Pow2Mod100(i - 1)) % 100) >= 100 THEN 1 ELSE 0

\* fl(f / 100) for an integer 0 < f < 100: [sig, scale] with value
\* sig * 2^(-scale).
DoubleDiv100(f) ==
  LET z == (CHOOSE i \in 1..7 :
              FracBit(f, i) = 1 /\ \A j \in 1..(i - 1) : FracBit(f, j) = 0) - 1
      \* 55 bits and a sticky bit for the remainder decide the rounding
      ext == [i \in 1..55 |-> FracBit(f, z + i)]
             \o <<IF (f * Pow2Mod100(z + 55)) % 100 > 0 THEN 1 ELSE 0>>
      r == RoundTo53(ext)
  IN  [sig |-> r.sig, scale |-> z + 56 - r.drop]

RECURSIVE MulLimbs(_, _, _, _)
\* The base-1024 digits, lowest first, of bits * a + carry * 1024^k from
\* digit k on, for bits below 2^60 and a below 2^20
MulLimbs(bits, a, k, carry) ==
  IF k = 6
  THEN <<carry % 1024, (carry \div 1024) % 1024, carry \div 1048576>>
  ELSE LET t == a * Limb(bits, k) + carry
       IN  <<t % 1024>> \o MulLimbs(bits, a, k + 1, t \div 1024)

\* bits * a as a bit string without leading zeros, for a > 0 and bits # 0
MulSmall(bits, a) ==
  LET limbs == MulLimbs(bits, a, 0, 0)
      bit(pos) == (limbs[(pos \div 10) + 1] \div (2 ^ (pos % 10))) % 2
      len == 1 + CHOOSE pos \in 0..89 :
                   bit(pos) = 1 /\ \A q \in (pos + 1)..89 : bit(q) = 0
  IN  [i \in 1..len |-> bit(len - i)]

\* Math.floor(amount * (feePercent / 100)) in doubles, for naturals
\* amount < 2^20 and feePercent <= 100 (100 / 100 is exactly 1).
FloorMulPercent(amount, feePercent) ==
  IF amount = 0 \/ feePercent = 0 THEN 0
  ELSE IF feePercent = 100 THEN amount
  ELSE LET q == DoubleDiv100(feePercent)
           p == RoundTo53(MulSmall(q.sig, amount))
           shift == q.scale - p.drop
       IN  IF shift >= Len(p.sig) THEN 0
           ELSE BitsToInt(SubSeq(p.sig, 1, Len(p.sig) - shift))

(***************************************************************************)
(* Networks, keys and addresses.                                           *)
(*   key id   [who, coin, idx]         a key pair (who: "hd", "hot", "ben") *)
(*   WIF      [key, net]               a private key in wallet format       *)
(*   address  [pkh, net]               bech32 P2WPKH of hash160(pubkey)     *)
(***************************************************************************)
Networks == {"mainnet", "testnet"}

\* networks[network] || bitcoin.networks.testnet
getNetwork(network) == IF network = "mainnet" THEN "bitcoin" ELSE "testnet"

NoKey == [who |-> "none", coin |-> 0, idx |-> 0]

HotKey == [who |-> "hot", coin |-> 0, idx |-> 0]

BeneficiaryKey == [who |-> "ben", coin |-> 0, idx |-> 0]

FeeKey == [who |-> "fee", coin |-> 0, idx |-> 0]

NoWif == [key |-> NoKey, net |-> "none"]

NoAddress == [pkh |-> NoKey, net |-> "none"]

\* bitcoin.address.toOutputScript(address, network) succeeds
validateAddress(address, network) ==
  address # NoAddress /\ address.net = getNetwork(network)

\* m/44'/coinType'/0'/0/index from the seed; p2wpkh address and WIF
generateHDFeatureAddress(index, network) ==
  LET coinType == IF network = "mainnet" THEN 0 ELSE 1
      child == [who |-> "hd", coin |-> coinType, idx |-> index]
  IN  [address |-> [pkh |-> child, net |-> getNetwork(network)],
       privateKey |-> [key |-> child, net |-> getNetwork(network)]]

(***************************************************************************)
(* The CLTV redeem script.  Stack elements and pushed data are records     *)
(* [t, b, k]: t the kind, b the bytes of a number, k the key of a hash, a  *)
(* public key or a signature.                                              *)
(***************************************************************************)
Bytes(b) == [t |-> "bytes", b |-> b, k |-> NoKey]

Hash160(key) == [t |-> "hash160", b |-> <<>>, k |-> key]

PubKey(key) == [t |-> "pubkey", b |-> <<>>, k |-> key]

Sig(key) == [t |-> "sig", b |-> <<>>, k |-> key]

Push(d) == [op |-> "PUSH", data |-> d]

Op(name) == [op |-> name, data |-> Bytes(<<>>)]

\* Buffer.alloc(4).writeUInt32LE(t, 0) accepts 0 <= t <= 2^32 - 1
UInt32InRange(t) == t[1] >= 0 /\ t[1] <= 65535

writeUInt32LE(t) ==
  <<t[2] % 256, t[2] \div 256, t[1] % 256, t[1] \div 256>>

\* <lockTime, 4 bytes LE> OP_CHECKLOCKTIMEVERIFY OP_DROP <pubkeyHash> OP_CHECKSIG
createCLTVRedeemScript(beneficiaryPubkeyHash, unlockTimestamp) ==
  << Push(Bytes(writeUInt32LE(unlockTimestamp))),
     Op("OP_CHECKLOCKTIMEVERIFY"),
     Op("OP_DROP"),
     Push(beneficiaryPubkeyHash),
     Op("OP_CHECKSIG") >>

(***************************************************************************)
(* Script evaluation (BIP65 and the witness-v0 rules), the part of the     *)
(* network that decides whether a spend of the locked output is valid.     *)
(***************************************************************************)
\* CScriptNum of at most 4 little-endian bytes: sign in the top bit of the
\* last byte.  [neg, mag] with mag a time pair.
ScriptNum(b) ==
  LET byte(i) == IF i <= Len(b) THEN b[i] ELSE 0
      top(i) == IF i = Len(b) THEN byte(i) % 128 ELSE byte(i)
  IN  [neg |-> Len(b) > 0 /\ b[Len(b)] >= 128,
       mag |-> <<top(3) + 256 * top(4), top(1) + 256 * top(2)>>]

\* A script number is minimally encoded
MinimalNum(b) ==
  \/ Len(b) = 0
  \/ b[Len(b)] % 128 # 0
  \/ Len(b) > 1 /\ b[Len(b) - 1] >= 128

StackTrue == [t |-> "bool", b |-> <<1>>, k |-> NoKey]

StackFalse == [t |-> "bool", b |-> <<>>, k |-> NoKey]

\* OP_CHECKLOCKTIMEVERIFY succeeds on top-of-stack `e` for a spending
\* transaction with nLockTime `lockTime` and input sequence `final`.
CheckLockTimeVerify(e, lockTime, final) ==
  /\ e.t = "bytes"
  /\ Len(e.b) <= 4
  /\ LET n == ScriptNum(e.b)
     IN  /\ ~n.neg
         /\ TimeLT(n.mag, LockTimeThreshold) = TimeLT(lockTime, LockTimeThreshold)
         /\ TimeLE(n.mag, lockTime)
  /\ ~final

\* OP_CHECKSIG: the top element must be an encoded public key and the one
\* below a signature made with its private key.
CheckSig(pub, sig) == pub.t = "pubkey" /\ sig.t = "sig" /\ sig.k = pub.k

RECURSIVE EvalScript(_, _, _)
\* Runs `script` on `stack` (top last); the final stack, or <<StackFalse>>
\* as soon as an operation fails.
EvalScript(script, stack, ctx) ==
  IF script = <<>> THEN stack
  ELSE LET ins == Head(script)
           rest == Tail(script)
           n == Len(stack)
       IN  CASE ins.op = "PUSH" -> EvalScript(rest, Append(stack, ins.data), ctx)
             [] ins.op = "OP_CHECKLOCKTIMEVERIFY" ->
                  IF n >= 1 /\ CheckLockTimeVerify(stack[n], ctx.lockTime, ctx.final)
                  THEN EvalScript(rest, stack, ctx)
                  ELSE <<StackFalse>>
             [] ins.op = "OP_DROP" ->
                  IF n >= 1 THEN EvalScript(rest, SubSeq(stack, 1, n - 1), ctx)
                  ELSE <<StackFalse>>
             [] ins.op = "OP_CHECKSIG" ->
                  IF n >= 2
                  THEN EvalScript(rest,
                         Append(SubSeq(stack, 1, n - 2),
                                IF CheckSig(stack[n], stack[n - 1])
                                THEN StackTrue ELSE StackFalse), ctx)
                  ELSE <<StackFalse>>
             [] OTHER -> <<StackFalse>>

\* A P2WSH spend is valid: the script runs on the witness items and leaves
\* exactly one true element.
SpendValid(script, ctx) == EvalScript(script, ctx.witness, ctx) = <<StackTrue>>

(***************************************************************************)
(* buildLockingTransaction                                                 *)
(***************************************************************************)
NoTx ==
  [inTxid |-> 0, inVout |-> 0, signer |-> NoKey, outs |-> <<>>, script |-> <<>>]

BuildFail(msg) ==
  [ok |-> FALSE, error |-> msg, tx |-> NoTx, feeSats |-> 0, lockedAmountSats |-> 0]

buildLockingTransaction(params) ==
  LET networkConfig == getNetwork(params.network)
      hotKeyPair == params.hotWalletWif.key
      \* the hash committed in the script is that of the signing key
      beneficiaryPubkeyHash == Hash160(hotKeyPair)
      redeemScript ==
        createCLTVRedeemScript(beneficiaryPubkeyHash, params.unlockTimestamp)
      feeSats == FloorMulPercent(params.utxoAmountSats, params.feePercent)
      lockedAmountSats == params.utxoAmountSats - feeSats
  IN  IF params.hotWalletWif.net # networkConfig
        THEN BuildFail("Invalid network version")
      ELSE IF ~validateAddress(params.beneficiaryAddress, params.network)
        THEN BuildFail("Invalid beneficiary address")
      ELSE IF ~UInt32InRange(params.unlockTimestamp)
        THEN BuildFail("value out of range")
      ELSE IF lockedAmountSats <= 0
        THEN BuildFail("Amount too small to cover fee")
      ELSE IF ~validateAddress(params.feeAddress, params.network)
        THEN BuildFail("Invalid fee address")
      ELSE [ok |-> TRUE, error |-> "",
            tx |-> [inTxid |-> params.utxoTxId, inVout |-> params.utxoVout,
                    signer |-> hotKeyPair,
                    outs |-> << [to |-> "fee", value |-> feeSats],
                                [to |-> "p2wsh", value |-> lockedAmountSats] >>,
                    script |-> redeemScript],
            feeSats |-> feeSats,
            lockedAmountSats |-> lockedAmountSats]

\* The transaction id: a digest of everything the transaction commits to
TxId(tx) ==
  [inTxid |-> tx.inTxid, inVout |-> tx.inVout, signer |-> tx.signer,
   fee |-> tx.outs[1].value, locked |-> tx.outs[2].value,
   script |-> tx.script]

NoLockTxid ==
  [inTxid |-> 0, inVout |-> 0, signer |-> NoKey, fee |-> 0, locked |-> 0,
   script |-> <<>>]

(***************************************************************************)
(* State                                                                   *)
(***************************************************************************)
VARIABLES
  gifts,     \* the gifts table, in insertion order; a gift's id is its position
  utxos,     \* outputs paid to deposit addresses (the chain)
  mempool,   \* locking transactions the network has accepted
  env,       \* process.env of the deployment
  now,       \* the current time, an index of Clock
  procs,     \* the route invocations in flight
  started,   \* number of invocations started so far
  events,    \* history: builds and broadcast attempts
  response,  \* the response most recently sent by a route
  calc       \* a direct call of buildLockingTransaction and a spend of its output

vars == <<gifts, utxos, mempool, env, now, procs, started, events, response, calc>>

Procs == 1..MaxProcs

\* Times the clock passes through, and the unlock times senders ask for
Clock == <<TimePoints[1], TimePoints[3]>>

UnlockChoices == {TimePoints[1], TimePoints[2], TimePoints[5]}

MinDepositSats == 6000

\* Bitcoin Core's dust limit for a P2WSH output at the default relay fee
DustThreshold == 330

DepositAmounts == {5999, 6000}

BeneficiaryAddresses ==
  {[pkh |-> BeneficiaryKey, net |-> "bitcoin"],
   [pkh |-> BeneficiaryKey, net |-> "testnet"]}

NoUtxo == [txid |-> 0, vout |-> 0, amount |-> 0, address |-> NoAddress]

NoGift ==
  [id |-> 0, deposit_address |-> NoAddress, hd_index |-> -1, amount_sats |-> 0,
   beneficiary_address |-> NoAddress, unlock_at |-> <<0, 0>>, fee_percent |-> 0,
   status |-> "none", deposit_txid |-> 0, lock_txid |-> NoLockTxid,
   utxo_txid |-> 0, utxo_vout |-> -1, utxo_amount_sats |-> -1,
   deposit_confirmations |-> 0, claim_txid |-> 0]

NoReq ==
  [amountSats |-> 0, beneficiaryAddress |-> NoAddress, unlockAt |-> <<0, 0>>]

\* data: the addresses, transaction ids and keys carried in the body
NoResp == [route |-> "none", code |-> 0, msg |-> "", giftId |-> 0, data |-> {}]

Idle ==
  [kind |-> "none", pc |-> "idle", inv |-> 0, gift |-> NoGift, utxo |-> NoUtxo,
   lockTxid |-> NoLockTxid, txidParam |-> 0, pending |-> <<>>, req |-> NoReq,
   hdIndex |-> -1]

Free(p) == procs[p].pc = "idle"

NoCalc ==
  [phase |-> "off", amount |-> 0, feePercent |-> 0, unlock |-> <<0, 0>>,
   wif |-> NoWif, beneficiary |-> NoAddress, network |-> "none",
   result |-> BuildFail(""), lockTime |-> <<0, 0>>, final |-> FALSE,
   witness |-> <<>>, valid |-> FALSE]

(***************************************************************************)
(* Configuration (process.env)                                             *)
(***************************************************************************)
NetworkEnvs == {"unset", "mainnet", "testnet"}

FeeEnvs == {"unset", "99"}

\* process.env.NEXT_PUBLIC_NETWORK || fallback
NetworkOr(fallback) == IF env.network = "unset" THEN fallback ELSE env.network

parseFloat(str) ==
  CASE str = "0" -> 0
    [] str = "1" -> 1
    [] str = "29" -> 29
    [] str = "99" -> 99
    [] str = "100" -> 100

\* parseFloat(process.env.FEE_PERCENT || '1')
FeePercentEnv ==
  parseFloat(IF env.feePercent = "unset" THEN "1" ELSE env.feePercent)

\* HOT_WALLET_WIF: a key of the operator's own, or, where the network is
\* configured, the key of the first derived deposit address
HotWallets(n) ==
  {[key |-> HotKey, net |-> getNetwork(n)]}
  \cup (IF n = "unset" THEN {} ELSE {generateHDFeatureAddress(0, n).privateKey})

\* The operator configures the hot wallet key and the fee address for the
\* network the deployment is meant for.
Configs ==
  UNION {{[network |-> n, feePercent |-> f, hotWalletWif |-> w,
           feeAddress |-> [pkh |-> FeeKey, net |-> getNetwork(n)],
           hdSeed |-> "seed", hdIndex |-> 0] :
             f \in FeeEnvs, w \in HotWallets(n)} : n \in NetworkEnvs}

Init ==
  /\ gifts = <<>>
  /\ utxos = {}
  /\ mempool = {}
  /\ env \in Configs
  /\ now = 1
  /\ procs = [p \in Procs |-> Idle]
  /\ started = 0
  /\ events = {}
  /\ response = NoResp
  /\ calc = NoCalc

(***************************************************************************)
(* The ledger (Supabase queries)                                           *)
(***************************************************************************)
GiftIds == 1..Len(gifts)

\* select('*').eq('id', id).single()
getGift(id) == IF id \in GiftIds THEN gifts[id] ELSE NoGift

\* select('*').eq('deposit_address', address).single(): an error, hence
\* null, unless exactly one row matches
getGiftByDepositAddress(address) ==
  LET rows == {i \in GiftIds : gifts[i].deposit_address = address}
  IN  IF Cardinality(rows) = 1 THEN gifts[CHOOSE i \in rows : TRUE] ELSE NoGift

\* The gifts newest first without the filter on status
AllNewestFirst == [i \in 1..Len(gifts) |-> gifts[Len(gifts) + 1 - i]]

\* select('*').order('created_at', { ascending: false }), then the filter
\* on status 'pending' of the sweep
PendingNewestFirst ==
  LET RECURSIVE rev(_)
      rev(i) == IF i = 0 THEN <<>>
                ELSE (IF gifts[i].status = "pending" THEN <<gifts[i]>> ELSE <<>>)
                     \o rev(i - 1)
  IN  rev(Len(gifts))

\* max(hd_index) + 1, or the configured start when there is no gift
getNextHDIndex ==
  IF gifts = <<>> THEN env.hdIndex
  ELSE LET top == CHOOSE i \in GiftIds :
                    \A j \in GiftIds : gifts[j].hd_index <= gifts[i].hd_index
       IN  gifts[top].hd_index + 1

\* createGift called without hdIndex: hd_index: params.hdIndex ?? null
createGiftWithoutIndex(depositAddress, amountSats, beneficiaryAddress, unlockAt, feePercent, hdIndex) ==
  Append(gifts,
    [NoGift EXCEPT
       !.id = Len(gifts) + 1,
       !.deposit_address = depositAddress,
       !.amount_sats = amountSats,
       !.beneficiary_address = beneficiaryAddress,
       !.unlock_at = unlockAt,
       !.fee_percent = IF feePercent = 0 THEN 1 ELSE feePercent,
       !.status = "pending"])

\* insert(...).select().single()
createGift(depositAddress, amountSats, beneficiaryAddress, unlockAt, feePercent, hdIndex) ==
  Append(gifts,
    [NoGift EXCEPT
       !.id = Len(gifts) + 1,
       !.deposit_address = depositAddress,
       !.amount_sats = amountSats,
       !.beneficiary_address = beneficiaryAddress,
       !.unlock_at = unlockAt,
       \* params.feePercent || 1.0
       !.fee_percent = IF feePercent = 0 THEN 1 ELSE feePercent,
       !.status = "pending",
       !.hd_index = hdIndex])

\* update({...lock fields, status: 'locked'}).eq('id', id)
lockGift(id, depositTxid, lockTxid, utxo) ==
  [gifts EXCEPT ![id] =
     [@ EXCEPT !.deposit_txid = depositTxid,
               !.lock_txid = lockTxid,
               !.utxo_txid = utxo.txid,
               !.utxo_vout = utxo.vout,
               !.utxo_amount_sats = utxo.amount,
               !.status = "locked"]]

\* update({claim_txid, claimed_at, status: 'claimed'}).eq('id', id)
claimGift(id, claimTxid) ==
  [gifts EXCEPT ![id] = [@ EXCEPT !.claim_txid = claimTxid, !.status = "claimed"]]

\* The update writing the status and the lock reference of a pending gift
\* along with the confirmations
updateConfirmationsAsPending(id, confirmations) ==
  [gifts EXCEPT ![id] = [@ EXCEPT !.deposit_confirmations = confirmations,
                                  !.status = "pending",
                                  !.lock_txid = NoLockTxid]]

\* update({ deposit_confirmations }).eq('id', id)
updateConfirmations(id, confirmations) ==
  [gifts EXCEPT ![id] = [@ EXCEPT !.deposit_confirmations = confirmations]]

(***************************************************************************)
(* The chain provider (mempool.space)                                      *)
(***************************************************************************)
Unspent(u) == \A t \in mempool : ~(t.inTxid = u.txid /\ t.inVout = u.vout)

\* What GET /address/:address/utxo followed by utxos[0] can yield: an
\* unspent output at the address (the provider chooses the order), or null
\* when the response is not ok or the list is empty, or a thrown error
\* when the request itself fails.
getUtxo(address) ==
  {[st |-> "ok", utxo |-> u] : u \in {v \in utxos : v.address = address /\ Unspent(v)}}
  \cup {[st |-> "null", utxo |-> NoUtxo], [st |-> "throw", utxo |-> NoUtxo]}

\* The same lookup when the provider answers: the first output of a
\* non-empty list, or null for an empty one
getUtxoAnswered(address) ==
  LET found == {r \in getUtxo(address) : r.st = "ok"}
  IN  IF found = {} THEN {[st |-> "null", utxo |-> NoUtxo]} ELSE found

\* The network can accept a transaction whose input is unspent and signed
\* by the key of the address holding it, or one it already holds.
Acceptable(tx) ==
  \/ tx \in mempool
  \/ \E u \in utxos : /\ u.txid = tx.inTxid /\ u.vout = tx.inVout
                       /\ Unspent(u)
                       /\ u.address.pkh = tx.signer

\* POST /tx: accepted (TRUE) or refused (FALSE); refusal is always possible
broadcastTransaction(tx) == IF Acceptable(tx) THEN {TRUE, FALSE} ELSE {FALSE}

\* signer: the key the transaction was signed with (NoKey when none was built)
Event(type, kind, giftId, inv, amount, ok, signer) ==
  [type |-> type, kind |-> kind, gift |-> giftId, inv |-> inv,
   amount |-> amount, ok |-> ok, signer |-> signer]

\* NextResponse.json(...): the invocation ends
RespData(code, msg, giftId, data) ==
  [route |-> "", code |-> code, msg |-> msg, giftId |-> giftId, data |-> data]

Resp(code, msg, giftId) == RespData(code, msg, giftId, {})

\* The create route returning the derived key along with the address
CreateBodyWithKey(gift, derived) == {gift.deposit_address, derived.privateKey}

\* { giftId, depositAddress, status } of the create route
CreateBody(gift, derived) == {gift.deposit_address}

\* The gift record, which the status route returns whole
GiftBody(gift) == {gift.deposit_address, gift.beneficiary_address, gift.lock_txid}

Finish(pr, resp) == [resp EXCEPT !.route = pr.kind]

\* An invocation step that leaves process p as `next`: a record of the
\* process still running, or the response that ends it
Step(p, next) ==
  IF "code" \in DOMAIN next
  THEN /\ procs' = [procs EXCEPT ![p] = Idle]
       /\ response' = next
  ELSE /\ procs' = [procs EXCEPT ![p] = next]
       /\ UNCHANGED response

Begin(kind) == [Idle EXCEPT !.kind = kind, !.inv = started + 1]

(***************************************************************************)
(* POST /api/gifts/create                                                  *)
(***************************************************************************)
CreateRequests ==
  [amountSats : {5999, 6000}, beneficiaryAddress : BeneficiaryAddresses,
   unlockAt : UnlockChoices]

CreatesInFlight == Cardinality({q \in Procs : procs[q].kind = "create" /\ ~Free(q)})

\* Validation, then the read of the highest hd_index
CreateStart(p, req) ==
  /\ Free(p)
  /\ started < MaxInvocations
  /\ Len(gifts) + CreatesInFlight < MaxGifts
  /\ started' = started + 1
  /\ LET pr == [Begin("create") EXCEPT !.req = req]
         network == NetworkOr("mainnet")
     IN  Step(p,
           IF req.amountSats < MinDepositSats
             THEN Finish(pr, Resp(400, "Minimum amount is 6,000 sats", 0))
           ELSE IF ~validateAddress(req.beneficiaryAddress, network)
             THEN Finish(pr, Resp(400, "Invalid Bitcoin address", 0))
           ELSE IF TimeLE(req.unlockAt, Clock[now])
             THEN Finish(pr, Resp(400, "Unlock date must be in the future", 0))
           ELSE IF env.hdSeed = "unset"
             THEN Finish(pr, Resp(500, "HD wallet not configured", 0))
           ELSE [pr EXCEPT !.pc = "c_check", !.hdIndex = getNextHDIndex])
  /\ UNCHANGED <<gifts, utxos, mempool, env, now, events, calc>>

\* Derivation of the deposit address, then the lookup of a gift at it
CreateCheck(p) ==
  LET pr == procs[p]
      derived == generateHDFeatureAddress(pr.hdIndex, NetworkOr("mainnet"))
      existingGift == getGiftByDepositAddress(derived.address)
  IN  /\ pr.pc = "c_check"
      /\ Step(p,
            IF existingGift # NoGift /\ existingGift.status = "pending"
            THEN Finish(pr, RespData(200, "pending", existingGift.id,
                                     CreateBody(existingGift, derived)))
            ELSE [pr EXCEPT !.pc = "c_insert"])
      /\ UNCHANGED <<gifts, utxos, mempool, env, now, started, events, calc>>

\* The insert of the gift record
CreateInsert(p) ==
  LET pr == procs[p]
      derived == generateHDFeatureAddress(pr.hdIndex, NetworkOr("mainnet"))
  IN  /\ pr.pc = "c_insert"
      /\ gifts' = createGift(derived.address, pr.req.amountSats,
                             pr.req.beneficiaryAddress, pr.req.unlockAt,
                             FeePercentEnv, pr.hdIndex)
      /\ Step(p,
            Finish(pr, RespData(200, "waiting_for_deposit", Len(gifts) + 1,
                                CreateBody(gifts'[Len(gifts) + 1], derived))))
      /\ UNCHANGED <<utxos, mempool, env, now, started, events, calc>>

(***************************************************************************)
(* POST /api/webhooks/mempool                                              *)
(***************************************************************************)
DepositAddressesInUse == {gifts[i].deposit_address : i \in GiftIds}

WebhookTxids == {0, 1}

\* The lookup of the gift by deposit address
WebhookStart(p, address, txid) ==
  /\ Free(p)
  /\ started < MaxInvocations
  /\ started' = started + 1
  /\ LET pr == Begin("webhook")
         gift == getGiftByDepositAddress(address)
     IN  Step(p,
           IF address = NoAddress
             THEN Finish(pr, Resp(400, "Address required", 0))
           ELSE IF gift = NoGift
             THEN Finish(pr, Resp(404, "No gift found for this address", 0))
           ELSE IF gift.status # "pending"
             THEN Finish(pr, Resp(200, "Gift already processed", gift.id))
           ELSE IF env.hotWalletWif = NoWif \/ env.feeAddress = NoAddress
             THEN Finish(pr, Resp(500, "Server configuration error", gift.id))
           ELSE [pr EXCEPT !.pc = "w_utxo", !.gift = gift, !.txidParam = txid])
  /\ UNCHANGED <<gifts, utxos, mempool, env, now, events, calc>>

\* The lookup of the deposited output
WebhookUtxo(p) ==
  LET pr == procs[p]
  IN  /\ pr.pc = "w_utxo"
      /\ \E r \in getUtxo(pr.gift.deposit_address) :
           Step(p,
             CASE r.st = "throw" ->
                    Finish(pr, Resp(500, "Internal server error", pr.gift.id))
               [] r.st = "null" ->
                    Finish(pr, Resp(404, "UTXO not found", pr.gift.id))
               [] OTHER -> [pr EXCEPT !.pc = "w_broadcast", !.utxo = r.utxo])
      /\ UNCHANGED <<gifts, utxos, mempool, env, now, started, events, calc>>

\* The webhook spending the output recorded on the gift instead of the one
\* its lookup returned
WebhookParamsOfRecord(gift, utxo) ==
  [utxoTxId |-> gift.utxo_txid, utxoVout |-> gift.utxo_vout,
   utxoAmountSats |-> gift.utxo_amount_sats,
   hotWalletWif |-> env.hotWalletWif,
   beneficiaryAddress |-> gift.beneficiary_address,
   unlockTimestamp |-> gift.unlock_at,
   feePercent |-> gift.fee_percent,
   feeAddress |-> env.feeAddress,
   network |-> NetworkOr("testnet")]

\* The arguments the webhook passes to buildLockingTransaction
WebhookParams(gift, utxo) ==
  [utxoTxId |-> utxo.txid, utxoVout |-> utxo.vout,
   utxoAmountSats |-> utxo.amount,
   hotWalletWif |-> env.hotWalletWif,
   beneficiaryAddress |-> gift.beneficiary_address,
   unlockTimestamp |-> gift.unlock_at,
   feePercent |-> gift.fee_percent,
   feeAddress |-> env.feeAddress,
   network |-> NetworkOr("testnet")]

\* buildLockingTransaction with the hot wallet key, then the broadcast
WebhookBroadcast(p) ==
  LET pr == procs[p]
      params == WebhookParams(pr.gift, pr.utxo)
      failed == Finish(pr, Resp(500, "Failed to build locking transaction", pr.gift.id))
  IN  /\ pr.pc = "w_broadcast"
      /\ \E res \in {buildLockingTransaction(params)} :
           LET built == Event("build", "webhook", pr.gift.id, pr.inv,
                              pr.utxo.amount, res.ok, res.tx.signer)
           IN  IF ~res.ok
               THEN /\ events' = events \cup {built}
                    /\ Step(p, failed)
                    /\ UNCHANGED mempool
               ELSE \E ok \in broadcastTransaction(res.tx) :
                    /\ events' = events \cup
                         {built, Event("broadcast", "webhook", pr.gift.id, pr.inv,
                                       pr.utxo.amount, ok, res.tx.signer)}
                    /\ mempool' = IF ok THEN mempool \cup {res.tx} ELSE mempool
                    /\ Step(p,
                         IF ok THEN [pr EXCEPT !.pc = "w_lock",
                                               !.lockTxid = TxId(res.tx)]
                         ELSE failed)
      /\ UNCHANGED <<gifts, utxos, env, now, started, calc>>

\* lockGift
WebhookLock(p) ==
  LET pr == procs[p]
  IN  /\ pr.pc = "w_lock"
      \* the update is written, or lockGift throws the database's error and
      \* the inner catch answers
      /\ \E written \in BOOLEAN :
           /\ gifts' = IF written
                       THEN lockGift(pr.gift.id,
                                     IF pr.txidParam # 0 THEN pr.txidParam
                                     ELSE pr.utxo.txid,
                                     pr.lockTxid, pr.utxo)
                       ELSE gifts
           /\ Step(p, Finish(pr,
                  IF written
                  THEN RespData(200, "success", pr.gift.id, {pr.lockTxid})
                  ELSE Resp(500, "Failed to build locking transaction", pr.gift.id)))
      /\ UNCHANGED <<utxos, mempool, env, now, started, events, calc>>

(***************************************************************************)
(* GET /api/admin/check-deposits (the polling sweep)                       *)
(***************************************************************************)
\* The loop taking the current gift to the build whatever the lookup returned
SweepNextBuilding(pr) == [pr EXCEPT !.pc = "s_broadcast"]

\* The sweep ending in its outer catch instead of moving on
SweepNextAborting(pr) == Finish(pr, Resp(500, "Failed to check deposits", 0))

\* The loop moves on to the next pending gift, or the sweep responds
SweepNext(pr) ==
  IF Len(pr.pending) <= 1
  THEN Finish(pr, Resp(200, "results", 0))
  ELSE [pr EXCEPT !.pc = "s_utxo", !.pending = Tail(pr.pending),
                  !.utxo = NoUtxo, !.lockTxid = NoLockTxid]

\* The admin check, then the read of all gifts
SweepBegin(p, authorized) ==
  /\ Free(p)
  /\ LET pr == Begin("sweep")
         pendingGifts == PendingNewestFirst
     IN  Step(p,
           IF ~authorized THEN Finish(pr, Resp(401, "Unauthorized", 0))
           ELSE IF pendingGifts = <<>> THEN Finish(pr, Resp(200, "results", 0))
           ELSE [pr EXCEPT !.pc = "s_utxo", !.pending = pendingGifts])
  /\ UNCHANGED <<gifts, utxos, mempool, env, now, events, calc>>

SweepStart(p, authorized) ==
  /\ started < MaxInvocations
  /\ started' = started + 1
  /\ SweepBegin(p, authorized)

\* The lookup of a deposit for the current gift of the loop; `reliable`
\* restricts the provider and the database to the outcomes in which they
\* answer and accept
SweepUtxoVia(p, reliable) ==
  LET pr == procs[p]
      gift == Head(pr.pending)
  IN  /\ pr.pc = "s_utxo"
      /\ \E r \in (IF reliable THEN getUtxoAnswered(gift.deposit_address)
                   ELSE getUtxo(gift.deposit_address)) :
           Step(p,
             IF r.st # "ok" THEN SweepNext(pr)
             ELSE IF r.utxo.amount < MinDepositSats THEN SweepNext(pr)
             ELSE IF env.hdSeed = "unset" \/ gift.hd_index = -1 THEN SweepNext(pr)
             ELSE IF env.feeAddress = NoAddress THEN SweepNext(pr)
             ELSE [pr EXCEPT !.pc = "s_broadcast", !.utxo = r.utxo])
      /\ UNCHANGED <<gifts, utxos, mempool, env, now, started, events, calc>>

SweepUtxo(p) == SweepUtxoVia(p, FALSE)

\* The sweep funding the transaction with the amount the sender asked for
SweepParamsOfRequested(gift, utxo) ==
  [utxoTxId |-> utxo.txid, utxoVout |-> utxo.vout,
   utxoAmountSats |-> gift.amount_sats,
   hotWalletWif |-> generateHDFeatureAddress(gift.hd_index, NetworkOr("mainnet")).privateKey,
   beneficiaryAddress |-> gift.beneficiary_address,
   unlockTimestamp |-> gift.unlock_at,
   feePercent |-> FeePercentEnv,
   feeAddress |-> env.feeAddress,
   network |-> NetworkOr("mainnet")]

\* The arguments the sweep passes to buildLockingTransaction
SweepParams(gift, utxo) ==
  LET network == NetworkOr("mainnet")
      derived == generateHDFeatureAddress(gift.hd_index, network)
  IN  [utxoTxId |-> utxo.txid, utxoVout |-> utxo.vout,
       utxoAmountSats |-> utxo.amount,
       hotWalletWif |-> derived.privateKey,
       beneficiaryAddress |-> gift.beneficiary_address,
       unlockTimestamp |-> gift.unlock_at,
       feePercent |-> FeePercentEnv,
       feeAddress |-> env.feeAddress,
       network |-> network]

\* buildLockingTransaction with the key derived from hd_index, then the
\* broadcast
SweepBroadcastVia(p, reliable) ==
  LET pr == procs[p]
      gift == Head(pr.pending)
      params == SweepParams(gift, pr.utxo)
  IN  /\ pr.pc = "s_broadcast"
      /\ \E res \in {buildLockingTransaction(params)} :
           LET built == Event("build", "sweep", gift.id, pr.inv,
                              pr.utxo.amount, res.ok, res.tx.signer)
           IN  IF ~res.ok
               THEN /\ events' = events \cup {built}
                    /\ Step(p, SweepNext(pr))
                    /\ UNCHANGED mempool
               ELSE \E ok \in (IF reliable THEN {Acceptable(res.tx)}
                             ELSE broadcastTransaction(res.tx)) :
                    /\ events' = events \cup
                         {built, Event("broadcast", "sweep", gift.id, pr.inv,
                                       pr.utxo.amount, ok, res.tx.signer)}
                    /\ mempool' = IF ok THEN mempool \cup {res.tx} ELSE mempool
                    /\ Step(p,
                         IF ok THEN [pr EXCEPT !.pc = "s_lock",
                                               !.lockTxid = TxId(res.tx)]
                         ELSE SweepNext(pr))
      /\ UNCHANGED <<gifts, utxos, env, now, started, calc>>

SweepBroadcast(p) == SweepBroadcastVia(p, FALSE)

\* lockGift
SweepLockVia(p, reliable) ==
  LET pr == procs[p]
      gift == Head(pr.pending)
  IN  /\ pr.pc = "s_lock"
      \* the update is written, or lockGift throws the database's error and
      \* the loop's catch records it; either way the loop moves on
      /\ \E written \in (IF reliable THEN {TRUE} ELSE BOOLEAN) :
           gifts' = IF written
                    THEN lockGift(gift.id, pr.utxo.txid, pr.lockTxid, pr.utxo)
                    ELSE gifts
      /\ Step(p, SweepNext(pr))
      /\ UNCHANGED <<utxos, mempool, env, now, started, events, calc>>

SweepLock(p) == SweepLockVia(p, FALSE)

(***************************************************************************)
(* GET /api/gifts/[id]/status                                              *)
(***************************************************************************)
StatusStart(p, id) ==
  /\ Free(p)
  /\ started < MaxInvocations
  /\ started' = started + 1
  /\ LET pr == Begin("status")
         gift == getGift(id)
     IN  Step(p,
           IF gift = NoGift THEN Finish(pr, Resp(404, "Gift not found", 0))
           ELSE IF gift.status = "pending"
             THEN [pr EXCEPT !.pc = "st_utxo", !.gift = gift]
           ELSE Finish(pr, RespData(200, gift.status, gift.id, GiftBody(gift))))
  /\ UNCHANGED <<gifts, utxos, mempool, env, now, events, calc>>

StatusUtxo(p) ==
  LET pr == procs[p]
  IN  /\ pr.pc = "st_utxo"
      /\ \E r \in getUtxo(pr.gift.deposit_address) :
           Step(p,
             CASE r.st = "throw" ->
                    Finish(pr, Resp(500, "Failed to get gift status", pr.gift.id))
               [] r.st = "null" ->
                    Finish(pr, RespData(200, pr.gift.status, pr.gift.id,
                                        GiftBody(pr.gift)))
               [] OTHER -> [pr EXCEPT !.pc = "st_update", !.utxo = r.utxo])
      /\ UNCHANGED <<gifts, utxos, mempool, env, now, started, events, calc>>

\* updateConfirmations(id, 1)
StatusUpdate(p) ==
  LET pr == procs[p]
  IN  /\ pr.pc = "st_update"
      /\ gifts' = updateConfirmations(pr.gift.id, 1)
      /\ Step(p, [pr EXCEPT !.pc = "st_reread"])
      /\ UNCHANGED <<utxos, mempool, env, now, started, events, calc>>

\* The second getGift, whose result is the response
StatusReread(p) ==
  LET pr == procs[p]
      updatedGift == getGift(pr.gift.id)
  IN  /\ pr.pc = "st_reread"
      /\ Step(p,
            Finish(pr, RespData(200, updatedGift.status, updatedGift.id,
                                GiftBody(updatedGift))))
      /\ UNCHANGED <<gifts, utxos, mempool, env, now, started, events, calc>>

(***************************************************************************)
(* The environment: the beneficiary's claim being recorded, senders paying *)
(* deposit addresses, time passing.                                        *)
(***************************************************************************)
ClaimTxids == {7}

\* claimGift(id, claimTxid), called for a gift that is locked
Claim(id, claimTxid) ==
  /\ gifts[id].status = "locked"
  /\ gifts' = claimGift(id, claimTxid)
  /\ UNCHANGED <<utxos, mempool, env, now, procs, started, events, calc, response>>

Deposit(address, amount) ==
  /\ Cardinality(utxos) < MaxDeposits
  /\ utxos' = utxos \cup {[txid |-> Cardinality(utxos) + 1, vout |-> 0,
                            amount |-> amount, address |-> address]}
  /\ UNCHANGED <<gifts, mempool, env, now, procs, started, events, calc, response>>

\* The instants of the clock are years apart: no request is in progress
\* across two of them
Tick ==
  /\ now < Len(Clock)
  /\ \A p \in Procs : Free(p)
  /\ now' = now + 1
  /\ UNCHANGED <<gifts, utxos, mempool, env, procs, started, events, calc, response>>

Next ==
  \/ \E p \in Procs, req \in CreateRequests : CreateStart(p, req)
  \/ \E p \in Procs : CreateCheck(p)
  \/ \E p \in Procs : CreateInsert(p)
  \/ \E p \in Procs, a \in DepositAddressesInUse \cup {NoAddress}, t \in WebhookTxids :
       WebhookStart(p, a, t)
  \/ \E p \in Procs : WebhookUtxo(p)
  \/ \E p \in Procs : WebhookBroadcast(p)
  \/ \E p \in Procs : WebhookLock(p)
  \/ \E p \in Procs, authorized \in BOOLEAN : SweepStart(p, authorized)
  \/ \E p \in Procs : SweepUtxo(p)
  \/ \E p \in Procs : SweepBroadcast(p)
  \/ \E p \in Procs : SweepLock(p)
  \/ \E p \in Procs, id \in GiftIds \cup {0} : StatusStart(p, id)
  \/ \E p \in Procs : StatusUtxo(p)
  \/ \E p \in Procs : StatusUpdate(p)
  \/ \E p \in Procs : StatusReread(p)
  \/ \E id \in GiftIds, claimTxid \in ClaimTxids : Claim(id, claimTxid)
  \/ \E a \in DepositAddressesInUse, amount \in DepositAmounts : Deposit(a, amount)
  \/ Tick

Spec == Init /\ [][Next]_vars

(***************************************************************************)
(* The periodic sweep on its own: gifts are created and paid, the sweep    *)
(* runs again and again, the provider answers, the network accepts what it *)
(* can and the database writes.  Every handler runs to its end.            *)
(***************************************************************************)
InitSweep ==
  /\ Init
  /\ env.network = "mainnet"
  /\ env.hotWalletWif.key = HotKey
  /\ env.feePercent = "unset"

\* A run of the periodic job
SweepCron(p) == SweepBegin(p, TRUE) /\ UNCHANGED started

NextSweep ==
  \/ \E p \in Procs, req \in CreateRequests : CreateStart(p, req)
  \/ \E p \in Procs : CreateCheck(p)
  \/ \E p \in Procs : CreateInsert(p)
  \/ \E a \in DepositAddressesInUse, amount \in DepositAmounts : Deposit(a, amount)
  \/ \E p \in Procs : SweepCron(p)
  \/ \E p \in Procs : SweepUtxoVia(p, TRUE)
  \/ \E p \in Procs : SweepBroadcastVia(p, TRUE)
  \/ \E p \in Procs : SweepLockVia(p, TRUE)

SweepFairness ==
  \A p \in Procs :
    /\ WF_vars(CreateCheck(p))
    /\ WF_vars(CreateInsert(p))
    /\ WF_vars(SweepCron(p))
    /\ WF_vars(SweepUtxoVia(p, TRUE))
    \* the build-and-broadcast step is enabled exactly when the handler is
    \* at it
    /\ []<>(procs[p].pc # "s_broadcast")
    /\ WF_vars(SweepLockVia(p, TRUE))

SpecSweep == InitSweep /\ [][NextSweep]_vars /\ SweepFairness

(***************************************************************************)
(* The two triggers on a mainnet deployment whose hot wallet is the first  *)
(* derived key, with the operator changing FEE_PERCENT between requests.   *)
(***************************************************************************)
FeeSettings == {"unset", "0", "99"}

TriggerRequests ==
  [amountSats : {6000, 100000},
   beneficiaryAddress : {[pkh |-> BeneficiaryKey, net |-> "bitcoin"]},
   unlockAt : {TimePoints[2]}]

InitTriggers ==
  /\ Init
  /\ env.network = "mainnet"
  /\ env.hotWalletWif = generateHDFeatureAddress(0, "mainnet").privateKey

\* The deployment is restarted with another FEE_PERCENT
Reconfigure(feePercent) ==
  /\ \A p \in Procs : Free(p)
  /\ feePercent # env.feePercent
  /\ env' = [env EXCEPT !.feePercent = feePercent]
  /\ UNCHANGED <<gifts, utxos, mempool, now, procs, started, events, calc, response>>

NextTriggers ==
  \/ \E p \in Procs, req \in TriggerRequests : CreateStart(p, req)
  \/ \E p \in Procs : CreateCheck(p)
  \/ \E p \in Procs : CreateInsert(p)
  \/ \E a \in DepositAddressesInUse, amount \in DepositAmounts : Deposit(a, amount)
  \/ \E p \in Procs, a \in DepositAddressesInUse : WebhookStart(p, a, 0)
  \/ \E p \in Procs : WebhookUtxo(p)
  \/ \E p \in Procs : WebhookBroadcast(p)
  \/ \E p \in Procs : WebhookLock(p)
  \/ \E p \in Procs : SweepStart(p, TRUE)
  \/ \E p \in Procs : SweepUtxo(p)
  \/ \E p \in Procs : SweepBroadcast(p)
  \/ \E p \in Procs : SweepLock(p)
  \/ \E feePercent \in FeeSettings : Reconfigure(feePercent)

SpecTriggers == InitTriggers /\ [][NextTriggers]_vars

(***************************************************************************)
(* buildLockingTransaction called directly, and a spend of the locked      *)
(* output it produces presented to the network.                            *)
(***************************************************************************)
BuildAmounts == {0, 100, 5999, 6000, 100000}

BuildFees == {0, 1, 29, 99, 100}

BuildWifs ==
  {[key |-> HotKey, net |-> "bitcoin"],
   generateHDFeatureAddress(0, "testnet").privateKey}

\* nLockTime of the spending transaction: the instants, and a block height
SpendLockTimes ==
  {TimePoints[i] : i \in {j \in 1..Len(TimePoints) : UInt32InRange(TimePoints[j])}}
  \cup {<<9, 10176>>}

\* Witness items a spender holding `key` can present
WitnessesOf(key) == {<<Sig(key)>>, <<Sig(key), PubKey(key)>>}

CalcParams ==
  [utxoTxId |-> 1, utxoVout |-> 0, utxoAmountSats |-> calc.amount,
   hotWalletWif |-> calc.wif, beneficiaryAddress |-> calc.beneficiary,
   unlockTimestamp |-> calc.unlock, feePercent |-> calc.feePercent,
   feeAddress |-> [pkh |-> FeeKey, net |-> getNetwork(calc.network)],
   network |-> calc.network]

InitBuild ==
  /\ gifts = <<>>
  /\ utxos = {}
  /\ mempool = {}
  /\ env \in {c \in Configs : c.network = "unset" /\ c.feePercent = "unset"}
  /\ now = 1
  /\ procs = [p \in Procs |-> Idle]
  /\ started = 0
  /\ events = {}
  /\ response = NoResp
  /\ \E a \in BuildAmounts, f \in BuildFees, i \in 1..Len(TimePoints),
        w \in BuildWifs, b \in BeneficiaryAddresses, n \in Networks :
       calc = [NoCalc EXCEPT !.phase = "input", !.amount = a, !.feePercent = f,
                             !.unlock = TimePoints[i], !.wif = w,
                             !.beneficiary = b, !.network = n]

CalcBuild ==
  /\ calc.phase = "input"
  /\ calc' = [calc EXCEPT !.phase = "built",
                          !.result = buildLockingTransaction(CalcParams)]
  /\ UNCHANGED <<gifts, utxos, mempool, env, now, procs, started, events, response>>

CalcSpend(lockTime, final, witness) ==
  /\ calc.phase = "built"
  /\ calc.result.ok
  /\ calc' = [calc EXCEPT
       !.phase = "spent", !.lockTime = lockTime, !.final = final,
       !.witness = witness,
       !.valid = SpendValid(calc.result.tx.script,
                            [lockTime |-> lockTime, final |-> final,
                             witness |-> witness])]
  /\ UNCHANGED <<gifts, utxos, mempool, env, now, procs, started, events, response>>

\* createGift called directly with the same inputs
CalcCreateGift ==
  /\ calc.phase = "input"
  /\ gifts' = createGift(generateHDFeatureAddress(0, calc.network).address,
                         calc.amount, calc.beneficiary, calc.unlock,
                         calc.feePercent, 0)
  /\ calc' = [calc EXCEPT !.phase = "created"]
  /\ UNCHANGED <<utxos, mempool, env, now, procs, started, events, response>>

NextBuild ==
  \/ CalcBuild
  \/ CalcCreateGift
  \/ \E lockTime \in SpendLockTimes, final \in BOOLEAN,
        witness \in WitnessesOf(BeneficiaryKey) \cup WitnessesOf(calc.wif.key) :
       CalcSpend(lockTime, final, witness)

SpecBuild == InitBuild /\ [][NextBuild]_vars

(***************************************************************************)
(* Properties                                                              *)
(***************************************************************************)
\* The gift an invocation of the webhook or of the sweep is working on
CurrentGift(p) ==
  IF procs[p].kind = "webhook" THEN procs[p].gift.id
  ELSE IF procs[p].kind = "sweep" /\ procs[p].pending # <<>>
       THEN Head(procs[p].pending).id
  ELSE 0

\* The invocation found a qualifying deposit and is at the build-and-broadcast
\* step or has passed it
AtBroadcast(p) ==
  /\ procs[p].pc \in {"w_broadcast", "w_lock", "s_broadcast", "s_lock"}
  /\ procs[p].utxo.amount >= MinDepositSats

\* C1: for one gift whose deposit address holds a qualifying UTXO, at most
\* one invocation of the webhook handler or of the sweep reaches the
\* broadcast step; the others see the gift as already claimed and return
\* without building or broadcasting.
C1_SingleBroadcaster ==
  \A p, q \in Procs :
    (p # q /\ AtBroadcast(p) /\ AtBroadcast(q)) => CurrentGift(p) # CurrentGift(q)

LockRecord(g) ==
  <<g.lock_txid, g.deposit_txid, g.utxo_txid, g.utxo_vout, g.utxo_amount_sats>>

\* C2: once a gift's lock record (lock_txid, deposit_txid, utxo_txid,
\* utxo_vout, utxo_amount_sats) is written, no later step changes it.
C2_LockRecordWrittenOnce ==
  [][\A id \in GiftIds :
       gifts[id].lock_txid # NoLockTxid =>
         LockRecord(gifts'[id]) = LockRecord(gifts[id])]_vars

StatusRank(status) ==
  CASE status = "pending" -> 1
    [] status = "locked" -> 2
    [] status = "claimed" -> 3
    [] OTHER -> 0

\* C3: a gift's status only moves forward along pending, locked, claimed.
C3_StatusMonotonic ==
  [][\A id \in GiftIds :
       StatusRank(gifts'[id].status) >= StatusRank(gifts[id].status)]_vars

\* C4: any two distinct gift records have distinct hd_index values and
\* distinct deposit addresses.
C4_DistinctHDIndex ==
  \A i, j \in GiftIds :
    i # j => /\ gifts[i].hd_index # gifts[j].hd_index
             /\ gifts[i].deposit_address # gifts[j].deposit_address

CalcDone == calc.phase \in {"built", "spent"}

\* C5: the pubkey hash committed in the redeem script is the beneficiary's,
\* not that of the key the transaction is signed with.
C5_ScriptCommitsToBeneficiary ==
  (CalcDone /\ calc.result.ok) =>
    /\ calc.result.tx.script[4].data = Hash160(calc.beneficiary.pkh)
    /\ calc.result.tx.script[4].data # Hash160(calc.wif.key)

\* C6: the locked output cannot be spent by a transaction whose lock time
\* is before unlockTimestamp, and can be spent with the beneficiary's key by
\* one whose lock time is at or after it.
C6_SpendableOnlyAfterUnlock ==
  (CalcDone /\ calc.result.ok) =>
    \A lockTime \in SpendLockTimes :
      LET ctx(w) == [lockTime |-> lockTime, final |-> FALSE, witness |-> w]
          script == calc.result.tx.script
      IN  /\ TimeLT(lockTime, calc.unlock) =>
               \A w \in WitnessesOf(BeneficiaryKey) \cup WitnessesOf(calc.wif.key) :
                 ~SpendValid(script, ctx(w))
          /\ (TimeLE(calc.unlock, lockTime) /\ TimeLE(LockTimeThreshold, lockTime)) =>
               \E w \in WitnessesOf(BeneficiaryKey) : SpendValid(script, ctx(w))

\* C7: for a fee percentage in [0,100), a successful build has exactly two
\* outputs, feeSats = floor(A * F / 100) and lockedSats = A - feeSats, which
\* add up to the funding amount A.
C7_FeeSplitExact ==
  (CalcDone /\ calc.result.ok /\ calc.feePercent < 100) =>
    LET outs == calc.result.tx.outs
    IN  /\ Len(outs) = 2
        /\ outs[1].value = (calc.amount * calc.feePercent) \div 100
        /\ outs[2].value = calc.amount - outs[1].value
        /\ outs[1].value + outs[2].value = calc.amount

\* The other inputs of the build are well formed
CalcWellFormed ==
  /\ calc.wif.net = getNetwork(calc.network)
  /\ validateAddress(calc.beneficiary, calc.network)
  /\ UInt32InRange(calc.unlock)

\* C8: the build fails with the amount-too-small error whenever the locked
\* amount is not positive or is below the dust threshold.
C8_DustRejected ==
  LET lockedSats == calc.amount - ((calc.amount * calc.feePercent) \div 100)
  IN  (CalcDone /\ CalcWellFormed /\ lockedSats < DustThreshold) =>
        /\ ~calc.result.ok
        /\ calc.result.error = "Amount too small to cover fee"

\* C9: whichever route triggers it, no locking transaction is built or
\* broadcast from a deposit below the 6,000-sat threshold.
C9_SmallDepositIgnored ==
  \A e \in events : e.amount >= MinDepositSats

\* C10: when the build or the broadcast of a gift's locking transaction
\* fails, the gift's status becomes failed.
C10_FailureRecorded ==
  \A e \in events :
    (~e.ok /\ gifts[e.gift].status \notin {"locked", "claimed"}) =>
      gifts[e.gift].status = "failed"

(***************************************************************************)
(* Recording of the lock                                                   *)
(***************************************************************************)
\* The invocation that made broadcast e is at its lockGift call for the gift
LockPending(e) ==
  \E p \in Procs : /\ procs[p].inv = e.inv
                   /\ procs[p].pc \in {"w_lock", "s_lock"}
                   /\ CurrentGift(p) = e.gift

\* C11: once a broadcast of a gift's locking transaction has succeeded and
\* the handler has gone past its lockGift call, the gift is no longer
\* pending and carries a lock_txid.
C11_BroadcastThenLocked ==
  \A e \in events :
    (e.type = "broadcast" /\ e.ok /\ ~LockPending(e)) =>
      /\ gifts[e.gift].status \in {"locked", "claimed"}
      /\ gifts[e.gift].lock_txid # NoLockTxid

\* The deposit address of gift id holds an unspent output of at least the
\* minimum amount
HoldsQualifyingUtxo(id) ==
  \E u \in utxos : /\ u.address = gifts[id].deposit_address
                   /\ u.amount >= MinDepositSats
                   /\ Unspent(u)

\* C12: while the sweep keeps running, the provider answers and the network
\* accepts the broadcast, a pending gift whose deposit address holds a
\* qualifying UTXO eventually reaches status locked.
C12_SweepLocksEventually ==
  \A id \in 1..MaxGifts :
    (id \in GiftIds /\ gifts[id].status = "pending" /\ HoldsQualifyingUtxo(id))
      ~> (id \in GiftIds /\ gifts[id].status = "locked")

(***************************************************************************)
(* Unlock times                                                            *)
(***************************************************************************)
\* C13: no gift record is created whose unlock time lies more than 50 years
\* after the time of its creation.
C13_HorizonEnforced ==
  [][Len(gifts') > Len(gifts) =>
       TimeLE(gifts'[Len(gifts')].unlock_at, TimeAdd(Clock[now], MaxHorizon))]_vars

(***************************************************************************)
(* Stored fields                                                           *)
(***************************************************************************)
\* C14: for every feePercent in [0,100), 0 included, the fee_percent stored
\* on the record createGift inserts equals the feePercent passed to it.
C14_FeePercentRoundTrip ==
  (calc.phase = "created" /\ calc.feePercent < 100) =>
    gifts[Len(gifts)].fee_percent = calc.feePercent

(***************************************************************************)
(* Key material                                                            *)
(***************************************************************************)
\* The private keys of the deployment: the hot wallet key and every key
\* derived from the seed
PrivateKeys ==
  {env.hotWalletWif}
  \cup {generateHDFeatureAddress(i, n).privateKey : i \in 0..MaxGifts, n \in Networks}

\* C15: no private key (the seed, a derived key, the hot wallet key) is
\* stored in a field of a gift record or carried in a response of the
\* create, status, webhook or sweep route.
C15_NoKeyMaterialExposed ==
  /\ \A id \in GiftIds :
       /\ GiftBody(gifts[id]) \cap PrivateKeys = {}
       /\ gifts[id].status # env.hdSeed
  /\ response.data \cap PrivateKeys = {}
  /\ response.msg # env.hdSeed

\* A create request has been answered with the deposit address of the gift
\* it stored
C15_Witness ==
  /\ response.route = "create"
  /\ response.code = 200
  /\ response.giftId \in GiftIds
  /\ response.data = {gifts[response.giftId].deposit_address}

(***************************************************************************)
(* Deposit addresses                                                       *)
(***************************************************************************)
\* Deriving again from the seed, the configured network and the gift's
\* hd_index gives the gift's deposit address
Rederivable(g) ==
  /\ g.hd_index # NoGift.hd_index
  /\ generateHDFeatureAddress(g.hd_index, NetworkOr("mainnet")).address
       = g.deposit_address

\* C16: every gift has an hd_index from which its deposit address is derived
\* again, and no step changes the deposit_address or the hd_index of a gift.
C16_DepositAddressRederivable ==
  [][/\ \A id \in 1..Len(gifts') : Rederivable(gifts'[id])
     /\ \A id \in GiftIds :
          /\ gifts'[id].deposit_address = gifts[id].deposit_address
          /\ gifts'[id].hd_index = gifts[id].hd_index]_vars

\* Two gifts with different indices, the first of them locked
C16_Witness ==
  /\ Len(gifts) = 2
  /\ gifts[1].hd_index = 0
  /\ gifts[2].hd_index = 1
  /\ gifts[1].status = "locked"

(***************************************************************************)
(* The locking transaction                                                 *)
(***************************************************************************)
\* C17: a relay fee is reserved out of the locked output: the two outputs
\* add up to strictly less than the funding amount, and the fee output is
\* floor(fundingAmount * feePercent / 100).
C17_RelayFeeReserved ==
  (CalcDone /\ calc.result.ok) =>
    LET outs == calc.result.tx.outs
    IN  /\ outs[1].value + outs[2].value < calc.amount
        /\ outs[1].value = (calc.amount * calc.feePercent) \div 100

\* The unlock time is one the service accepts at the first instant of the
\* clock: in the future, and no more than 50 years ahead
AcceptedUnlock(t) ==
  /\ TimeLT(Clock[1], t)
  /\ TimeLE(t, TimeAdd(Clock[1], MaxHorizon))

\* C19: for every accepted unlockTimestamp, values from 2^31 on included,
\* the number pushed at the start of the redeem script decodes as a script
\* number to unlockTimestamp and is minimally encoded.
C19_LockTimePushMinimal ==
  (CalcDone /\ calc.result.ok /\ AcceptedUnlock(calc.unlock)) =>
    LET pushed == calc.result.tx.script[1].data.b
    IN  /\ ScriptNum(pushed) = [neg |-> FALSE, mag |-> calc.unlock]
        /\ MinimalNum(pushed)

(***************************************************************************)
(* The build step of the triggers                                          *)
(***************************************************************************)
\* C18: whichever route builds it, a locking transaction is signed with the
\* key derived for the gift's hd_index, the key of its deposit address.
C18_SignedWithDerivedKey ==
  \A e \in events :
    (e.type = "build" /\ e.ok) =>
      /\ e.signer = gifts[e.gift].deposit_address.pkh
      /\ e.signer = generateHDFeatureAddress(gifts[e.gift].hd_index,
                                             NetworkOr("mainnet")).privateKey.key

\* C20: no locking transaction is built for a gift whose unlock time is not
\* strictly after the time of the build.
C20_UnlockInFutureAtBuild ==
  [][\A e \in events' \ events :
       (e.type = "build" /\ e.ok) => TimeLT(Clock[now], gifts[e.gift].unlock_at)]_vars

(***************************************************************************)
(* Lookups that find nothing                                               *)
(***************************************************************************)
LookupPcs == {"w_utxo", "s_utxo", "st_utxo"}

\* Process p takes its lookup step and comes out of it holding no UTXO: the
\* provider returned none, or the call failed
LookupFoundNothing(p) ==
  /\ procs[p].pc \in LookupPcs
  /\ procs'[p] # procs[p]
  /\ procs'[p].utxo = NoUtxo

\* C21: a lookup that returns none or fails changes no gift, attempts no
\* build or broadcast and does not take the invocation to the broadcast
\* step; hence, however many invocations there are, a gift whose deposit
\* address never received an output stays pending with empty lock fields.
C21_EmptyLookupIsNoOp ==
  /\ [][\A p \in Procs :
          LookupFoundNothing(p) =>
            /\ gifts' = gifts
            /\ mempool' = mempool
            /\ events' = events
            /\ procs'[p].pc \notin {"w_broadcast", "w_lock", "s_broadcast", "s_lock"}]_vars
  /\ [](\A id \in GiftIds :
          (\A u \in utxos : u.address # gifts[id].deposit_address) =>
            /\ gifts[id].status = "pending"
            /\ LockRecord(gifts[id]) = LockRecord(NoGift)
            /\ \A e \in events : e.gift # id)

\* The webhook has been told again and again of a deposit that the provider does
\* not list, and the gift is still pending
C21_Witness ==
  /\ started = MaxInvocations
  /\ response.route = "webhook"
  /\ response.msg = "UTXO not found"
  /\ response.giftId \in GiftIds
  /\ gifts[response.giftId].status = "pending"
  /\ events = {}

(***************************************************************************)
(* Choice of the UTXO                                                      *)
(***************************************************************************)
\* C22: when the deposit address of the pending gift the sweep is looking at
\* holds an unspent output of at least 6,000 sats and the provider answers,
\* the lookup step takes a qualifying output to the build, whatever smaller
\* outputs are at the address and in whatever order they are listed.
C22_QualifyingUtxoSelected ==
  [][\A p \in Procs :
       LET gift == Head(procs[p].pending)
       IN  (/\ procs[p].pc = "s_utxo"
            /\ procs'[p] # procs[p]
            /\ gifts[gift.id].status = "pending"
            /\ HoldsQualifyingUtxo(gift.id)) =>
             /\ procs'[p].pc = "s_broadcast"
             /\ procs'[p].utxo.address = gift.deposit_address
             /\ procs'[p].utxo.amount >= MinDepositSats]_vars

(***************************************************************************)
(* What the outputs depend on                                              *)
(***************************************************************************)
\* The gift record an invocation of a trigger holds
HeldGift(p) == IF procs[p].kind = "webhook" THEN procs[p].gift ELSE Head(procs[p].pending)

\* The arguments process p passes to buildLockingTransaction for `gift`
TriggerParams(p, gift) ==
  IF procs[p].kind = "webhook" THEN WebhookParams(gift, procs[p].utxo)
  ELSE SweepParams(gift, procs[p].utxo)

RequestedAmounts == {6000, 100000}

\* C23: the fee and locked outputs of the transaction a trigger builds are
\* those it builds, from the same deposit, for a gift that differs only in
\* the requested amount_sats; the outputs of a transaction it has broadcast
\* are those of that build.
C23_OutputsIgnoreRequestedAmount ==
  \A p \in Procs :
    procs[p].pc \in {"w_broadcast", "s_broadcast", "w_lock", "s_lock"} =>
      \E r \in {buildLockingTransaction(TriggerParams(p, HeldGift(p)))} :
        \A a \in RequestedAmounts :
          \E other \in {buildLockingTransaction(
                          TriggerParams(p, [HeldGift(p) EXCEPT !.amount_sats = a]))} :
          /\ other.ok = r.ok
          /\ other.feeSats = r.feeSats
          /\ other.lockedAmountSats = r.lockedAmountSats
          /\ procs[p].pc \in {"w_lock", "s_lock"} =>
               /\ procs[p].lockTxid.fee = other.feeSats
               /\ procs[p].lockTxid.locked = other.lockedAmountSats

\* A trigger has broadcast the lock of a 6,000-sat deposit for a gift whose
\* sender asked for 100,000 sats
C23_Witness ==
  \E p \in Procs :
    /\ procs[p].pc \in {"w_lock", "s_lock"}
    /\ HeldGift(p).amount_sats = 100000
    /\ procs[p].utxo.amount = 6000
    /\ procs[p].lockTxid.fee + procs[p].lockTxid.locked = 6000

(***************************************************************************)
(* Lookup before broadcast                                                 *)
(***************************************************************************)
BroadcastPcs == {"w_broadcast", "s_broadcast"}

\* C24: an invocation comes to its broadcast step only from its own lookup
\* step, holding an output that lookup found unspent at the gift's deposit
\* address; the transaction it builds and submits spends exactly that
\* output, and so does the one it records after a successful broadcast.
C24_BroadcastSpendsLookedUpUtxo ==
  /\ [][\A p \in Procs :
          (procs'[p].pc \in BroadcastPcs /\ procs'[p] # procs[p]) =>
            /\ procs[p].pc \in {"w_utxo", "s_utxo"}
            /\ procs'[p].inv = procs[p].inv
            /\ procs'[p].utxo \in utxos
            /\ Unspent(procs'[p].utxo)
            /\ procs'[p].utxo.address = HeldGift(p).deposit_address]_vars
  /\ [](\A p \in Procs :
          /\ procs[p].pc \in BroadcastPcs =>
               /\ TriggerParams(p, HeldGift(p)).utxoTxId = procs[p].utxo.txid
               /\ TriggerParams(p, HeldGift(p)).utxoVout = procs[p].utxo.vout
               /\ TriggerParams(p, HeldGift(p)).utxoAmountSats = procs[p].utxo.amount
          /\ procs[p].pc \in {"w_lock", "s_lock"} =>
               /\ procs[p].lockTxid.inTxid = procs[p].utxo.txid
               /\ procs[p].lockTxid.inVout = procs[p].utxo.vout
               /\ procs[p].utxo \in utxos)

\* After a broadcast for a gift was refused, a later invocation has looked
\* the deposit up again and is at its own broadcast step for the same gift
C24_Witness ==
  \E p \in Procs, e \in events :
    /\ e.type = "broadcast"
    /\ ~e.ok
    /\ procs[p].pc \in BroadcastPcs
    /\ procs[p].inv > e.inv
    /\ HeldGift(p).id = e.gift
    /\ procs[p].utxo \in utxos

(***************************************************************************)
(* One sweep over several gifts                                            *)
(***************************************************************************)
SweepPcs == {"s_utxo", "s_broadcast", "s_lock"}

\* C25: a step of a sweep writes no gift other than the one the loop is at,
\* and whatever happens to that gift (a failed lookup, build, broadcast or
\* ledger write included) the sweep either goes on with the same gift or
\* moves to the next pending gift of its list; it ends, with its results,
\* only after the last one.
C25_SweepErrorsIsolated ==
  [][\A p \in Procs :
       (procs[p].pc \in SweepPcs /\ procs'[p] # procs[p]) =>
         LET pr == procs[p]
             gift == Head(pr.pending)
         IN  /\ \A id \in GiftIds : id # gift.id => gifts'[id] = gifts[id]
             /\ \/ /\ procs'[p].pending = pr.pending
                   /\ procs'[p].inv = pr.inv
                   /\ procs'[p].pc \in SweepPcs \ {"s_utxo"}
                \/ /\ Len(pr.pending) > 1
                   /\ procs'[p].pending = Tail(pr.pending)
                   /\ procs'[p].inv = pr.inv
                   /\ procs'[p].pc = "s_utxo"
                \/ /\ Len(pr.pending) = 1
                   /\ Free(p)'
                   /\ response'.route = "sweep"
                   /\ response'.code = 200]_vars

\* A sweep whose build or broadcast for one gift failed is at the build or
\* the ledger write of the next gift of its list
C25_Witness ==
  \E p \in Procs, e \in events :
    /\ procs[p].pc \in {"s_broadcast", "s_lock"}
    /\ e.kind = "sweep"
    /\ e.inv = procs[p].inv
    /\ ~e.ok
    /\ e.gift # Head(procs[p].pending).id
    /\ gifts[e.gift].status = "pending"

(***************************************************************************)
(* Gifts that are no longer pending                                        *)
(***************************************************************************)
TriggerKinds == {"webhook", "sweep"}

\* The gift records an invocation of a trigger took on when it started
TakenOn(pr) ==
  IF pr.kind = "webhook" THEN {pr.gift}
  ELSE {pr.pending[i] : i \in 1..Len(pr.pending)}

\* C26: a trigger takes on only gifts it read as pending, the step that
\* reads writes nothing, and every later write, build and broadcast of the
\* invocation is for a gift it read as pending; a gift read as locked or
\* claimed is left as it is.
C26_NonPendingLeftAlone ==
  [][/\ started' # started =>
          /\ gifts' = gifts
          /\ mempool' = mempool
          /\ events' = events
     /\ \A p \in Procs :
          /\ (Free(p) /\ ~Free(p)' /\ procs'[p].kind \in TriggerKinds) =>
               \A g \in TakenOn(procs'[p]) : g = gifts[g.id] /\ g.status = "pending"
          /\ (~Free(p) /\ procs[p].kind \in TriggerKinds /\ procs'[p] # procs[p]) =>
               /\ HeldGift(p).status = "pending"
               /\ \A id \in GiftIds : gifts'[id] # gifts[id] => id = HeldGift(p).id
               /\ \A e \in events' \ events : e.gift = HeldGift(p).id]_vars

\* The webhook was called for a gift that is locked or claimed and answered
\* that it is already processed; nothing was built for the gift by it
C26_Witness ==
  /\ response.route = "webhook"
  /\ response.msg = "Gift already processed"
  /\ gifts[response.giftId].status \in {"locked", "claimed"}
  /\ \A p \in Procs : Free(p)
  /\ \A e \in events : e.gift = response.giftId => e.inv < started

(***************************************************************************)
(* The answer of the create route                                          *)
(***************************************************************************)
\* C27: when a create request is answered with success, the gift named by
\* the returned giftId carries the beneficiary address and the unlock time
\* of that request.
C27_CreateReturnsOwnGift ==
  [][\A p \in Procs :
       (/\ procs[p].kind = "create"
        /\ ~Free(p)
        /\ Free(p)'
        /\ response'.code = 200) =>
         /\ response'.giftId \in 1..Len(gifts')
         /\ gifts'[response'.giftId].beneficiary_address = procs[p].req.beneficiaryAddress
         /\ gifts'[response'.giftId].unlock_at = procs[p].req.unlockAt]_vars

(***************************************************************************)
(* The network of the entry points                                         *)
(***************************************************************************)
\* C28: the network a trigger builds the locking transaction on is the
\* network on which the create route derived the gift's deposit address and
\* validated its beneficiary, whatever NEXT_PUBLIC_NETWORK is.
C28_SameNetworkEverywhere ==
  \A p \in Procs :
    procs[p].pc \in BroadcastPcs =>
      /\ getNetwork(TriggerParams(p, HeldGift(p)).network) = HeldGift(p).deposit_address.net
      /\ validateAddress(HeldGift(p).beneficiary_address, TriggerParams(p, HeldGift(p)).network)

(***************************************************************************)
(* The fee percentage at lock time                                         *)
(***************************************************************************)
\* C29: the fee output of a locking transaction a trigger has broadcast is
\* computed with the fee_percent stored on the gift, whichever trigger it is
\* and whatever FEE_PERCENT is when the gift is locked.
C29_StoredFeePercentApplied ==
  \A p \in Procs :
    procs[p].pc \in {"w_lock", "s_lock"} =>
      /\ TriggerParams(p, HeldGift(p)).feePercent = HeldGift(p).fee_percent
      /\ procs[p].lockTxid.fee
           = FloorMulPercent(procs[p].utxo.amount, HeldGift(p).fee_percent)

(***************************************************************************)
(* The status query                                                        *)
(***************************************************************************)
\* Process p takes a step of a status query
StatusStep(p) ==
  \/ procs[p].kind = "status" /\ procs'[p] # procs[p]
  \/ Free(p) /\ procs'[p].kind = "status"
  \/ Free(p) /\ Free(p)' /\ started' # started /\ response'.route = "status"

\* C30: a step of a status query broadcasts nothing and leaves every field
\* of every gift as it is, deposit_confirmations excepted, also when the
\* gift it read as pending has been locked by a trigger in the meantime.
C30_StatusWritesConfirmationsOnly ==
  [][\A p \in Procs :
       StatusStep(p) =>
         /\ mempool' = mempool
         /\ events' = events
         /\ Len(gifts') = Len(gifts)
         /\ \A id \in GiftIds :
              [gifts'[id] EXCEPT !.deposit_confirmations = gifts[id].deposit_confirmations]
                = gifts[id]]_vars

\* A status query that read the gift as pending has written the
\* confirmations of a gift that a trigger has locked
C30_Witness ==
  \E p \in Procs :
    /\ procs[p].pc = "st_reread"
    /\ procs[p].gift.status = "pending"
    /\ gifts[procs[p].gift.id].status = "locked"
    /\ gifts[procs[p].gift.id].deposit_confirmations = 1

=============================================================================
